---- MODULE Spec2Model ----
(***************************************************************************)
(* Discuss-app: the vote toggle (toggleLike / toggleCommentLike) over the  *)
(* discussion and comment collections, content creation and listing,       *)
(* registration (createDiscussAccount + the register page), the credential *)
(* login (authorize + the login page), the lifetime of a session, the      *)
(* store connection (connectDB) and the like buttons of the pages.         *)
(*                                                                         *)
(* Every server action is a sequence of store accesses separated by        *)
(* awaits; one model action is one store access together with the local    *)
(* code up to the next await on the store.                                 *)
(***************************************************************************)
EXTENDS Integers, Sequences, FiniteSets, TLC

(***************************************************************************)
(* Bounds of the model.                                                    *)
(***************************************************************************)
\* toggle calls started in one behaviour
MaxCalls == 3
\* documents per content collection
MaxItems == 1
\* documents the clients add to a collection
MaxDocs == 1
\* connections connectDB may start
MaxConnects == 4
\* the largest count a like button is given by the server
MaxShown == 2
\* documents per collection of the feed
MaxFeed == 2

(***************************************************************************)
(* Values.                                                                 *)
(***************************************************************************)
\* JavaScript undefined (session?.user?.id of a request without a session)
Undefined == "undefined"
\* BSON / JavaScript null
Null == "null"

\* _id the store gives to the i-th created user
UserIds == <<"u1", "u2", "u3">>
\* browsers that send requests
Clients == {"c1", "c2", "c3"}
\* request handlers running concurrently on the server
Procs == {"p1", "p2", "p3"}
\* the handlers the general toggle workload uses
Workers == {"p1", "p2"}
\* content ids the clients pass to the toggles: the first document of a
\* collection and an id that resolves to no document
TargetIds == {1, MaxItems + 1}

NoSession == [user |-> [id |-> Undefined, email |-> Undefined, name |-> Undefined]]

VARIABLES
    users,        \* DiscussUser collection: sequence of documents
    discussions,  \* Discussion collection: sequence of documents, _id = index
    comments,     \* DiscussComment collection: sequence of documents, _id = index
    clock,        \* store time, source of createdAt
    sessions,     \* per client: the session its token decodes to
    calls,        \* per request handler: the toggle call it is running
    nCalls,       \* toggle calls started so far
    track,        \* history: per item, the last toggle that updated it
    login,        \* per client: outcome of its last login attempt
    reply,        \* outcome of the last content or listing call
    plain,        \* history: per stored user, the password it registered with
    tokens,       \* per client: issue time and expiry of its session token
    now,          \* wall-clock time, in seconds
    regs,         \* per request handler: the registration it is running
    connection,   \* connectDB: the connections started and each caller's position
    card          \* a like button component: its React state

vars == <<users, discussions, comments, clock, sessions, calls, nCalls, track, login,
          reply, plain, tokens, now, regs, connection, card>>

(***************************************************************************)
(* Password hasher (bcryptjs).                                             *)
(***************************************************************************)
BcryptCost == 12
\* bcrypt keys the cipher with the first 72 bytes of the password
BcryptMaxBytes == 72

\* the part of a password (one byte per character) that bcrypt reads
BcryptKey(password) ==
    IF Len(password) <= BcryptMaxBytes THEN password
    ELSE SubSeq(password, 1, BcryptMaxBytes)

\* bcrypt.hash(password, 12): a salted digest of the key; the plaintext is
\* recoverable from it only by comparison
bcryptHash(password, salt) ==
    [alg |-> "bcrypt", cost |-> BcryptCost, salt |-> salt,
     digest |-> <<salt, BcryptKey(password)>>]

\* a comparison that accepts every password as long as the stored one
bcryptCompareLength(password, hash) ==
    Len(BcryptKey(password)) = Len(hash.digest[2])

\* bcrypt.compare(password, hash): re-hash with the salt and cost of the hash
bcryptCompare(password, hash) ==
    bcryptHash(password, hash.salt).digest = hash.digest

\* the document createDiscussAccount stores for (email, password, fullName)
UserDoc(email, password, fullName, salt) ==
    [email |-> email, password |-> bcryptHash(password, salt),
     fullName |-> fullName]

\* three registrations: email, password, full name
Registrations ==
    << [email    |-> <<"a", "@", "x", ".", "c", "o", "m">>,
        password |-> <<"A", "b", "c", "d", "e", "f", "1", "!">>,
        fullName |-> <<"A", " ", "T", "e", "s", "t">>],
       [email    |-> <<"b", "@", "x", ".", "c", "o", "m">>,
        password |-> <<"B", "c", "d", "e", "f", "g", "2", "?">>,
        fullName |-> <<"B", " ", "T", "e", "s", "t">>],
       [email    |-> <<"c", "@", "x", ".", "c", "o", "m">>,
        password |-> <<"C", "d", "e", "f", "g", "h", "3", "#">>,
        fullName |-> <<"C", " ", "T", "e", "s", "t">>] >>

\* the passwords the first n of them registered with
PlainOf(n) == [i \in 1..n |-> Registrations[i].password]

\* the DiscussUser collection after these registrations
Accounts ==
    [i \in 1..Len(Registrations) |->
        UserDoc(Registrations[i].email, Registrations[i].password,
                Registrations[i].fullName, <<"salt", i>>)]

(***************************************************************************)
(* The store (mongoose models).                                            *)
(***************************************************************************)
\* MongooseArray.includes: indexOf with ==, under which null == undefined
LooseEq(a, b) == a = b \/ {a, b} = {Undefined, Null}

includes(arr, v) == \E i \in 1..Len(arr) : LooseEq(arr[i], v)

\* Model.findById(id): does the id resolve to a stored document
Resolves(coll, id) == id \in 1..Len(coll)

\* $pull: removes every element equal to v
RECURSIVE Pull(_, _)
Pull(arr, v) ==
    IF arr = <<>> THEN <<>>
    ELSE IF Head(arr) = v THEN Pull(Tail(arr), v)
         ELSE <<Head(arr)>> \o Pull(Tail(arr), v)

\* an array write that replaces the array instead of appending to it
PushOnlyLast(arr, v) == <<v>>

\* $push: appends v, whether or not it is already an element
Push(arr, v) == Append(arr, v)

\* an unlike branch that forgets the counter
UnlikeUpdateNoInc(userId) == [arr |-> "$pull", val |-> userId, inc |-> 0]

\* the update document of the unlike branch
UnlikeUpdate(userId) == [arr |-> "$pull", val |-> userId, inc |-> -1]

\* the update document of the like branch
LikeUpdate(userId) == [arr |-> "$push", val |-> userId, inc |-> 1]

\* One atomic update of one document: the array operator and $inc together.
\* An undefined array value is cast by the driver: either the array operator
\* is dropped from the update (castNull = FALSE) or it is sent as null.
ApplyUpdate(doc, upd, castNull) ==
    LET dropped == upd.val = Undefined /\ ~castNull
        v       == IF upd.val = Undefined THEN Null ELSE upd.val
        arr     == IF dropped THEN doc.likedBy
                   ELSE IF upd.arr = "$push" THEN Push(doc.likedBy, v)
                   ELSE Pull(doc.likedBy, v)
    IN  [doc EXCEPT !.likedBy = arr, !.upVote = @ + upd.inc]

\* an update that is applied to every document of the collection
updateMany(coll, id, upd, castNull) ==
    IF ~Resolves(coll, id) THEN [coll |-> coll, docs |-> <<>>]
    ELSE LET after == [i \in 1..Len(coll) |-> ApplyUpdate(coll[i], upd, castNull)]
         IN  [coll |-> after, docs |-> <<after[id]>>]

\* Model.findByIdAndUpdate(id, update, {new: true}): the collection after the
\* update and the document returned
findByIdAndUpdate(coll, id, upd, castNull) ==
    IF ~Resolves(coll, id) THEN [coll |-> coll, docs |-> <<>>]
    ELSE LET after == [coll EXCEPT ![id] = ApplyUpdate(@, upd, castNull)]
         IN  [coll |-> after, docs |-> <<after[id]>>]

(***************************************************************************)
(* Sessions.                                                               *)
(***************************************************************************)
\* a session that lasts a day
maxAgeOneDay == 24 * 60 * 60

\* session.maxAge and session.updateAge of the NextAuth configuration, in
\* seconds
maxAge == 30 * 24 * 60 * 60
updateAge == 24 * 60 * 60

\* a client without a session cookie
NoToken == [issuedAt |-> -1, expires |-> -1]

\* the token written at sign-in: it expires maxAge after it is issued
issueToken(t) == [issuedAt |-> t, expires |-> t + maxAge]

\* a token is accepted while the time is before its expiry
verifyToken(token, t) == token # NoToken /\ t < token.expires

\* auth(): the session of the request's token, null once the token is no
\* longer accepted.  The call reads the token and writes none.
auth(c) == IF verifyToken(tokens[c], now) THEN sessions[c] ELSE NoSession

\* session?.user?.id
SessionUserId(session) == session.user.id

\* the session a token issued for user document number i decodes to
SessionOf(i) ==
    [user |-> [id |-> UserIds[i], email |-> users[i].email,
               name |-> users[i].fullName]]

(***************************************************************************)
(* Credential login: authorize, the jwt and session callbacks, and the     *)
(* login page.                                                             *)
(***************************************************************************)
NoUser == [id |-> Undefined, email |-> Undefined, name |-> Undefined]

\* a lookup that finds nobody
findOneByEmailNone(email) == {}

\* DiscussUser.findOne({email}): the positions of the matching documents
findOneByEmail(email) == {i \in 1..Len(users) : users[i].email = email}

\* an authorize that tells the caller when the email is unknown
authorizeUserNotFound(credentials, up) ==
    IF credentials.email = <<>> \/ credentials.password = <<>>
    THEN [kind |-> "null", message |-> "", user |-> NoUser]
    ELSE IF ~up
    THEN [kind |-> "throw", message |-> "store unavailable", user |-> NoUser]
    ELSE IF findOneByEmail(credentials.email) = {}
    THEN [kind |-> "throw", message |-> "User not found", user |-> NoUser]
    ELSE LET i == CHOOSE i \in findOneByEmail(credentials.email) :
                      \A j \in findOneByEmail(credentials.email) : i <= j
             discussUser == users[i]
         IN  IF ~bcryptCompare(credentials.password, discussUser.password)
             THEN [kind |-> "throw", message |-> "Invalid credentials",
                   user |-> NoUser]
             ELSE [kind |-> "user", message |-> "",
                   user |-> [id |-> UserIds[i], email |-> discussUser.email,
                             name |-> discussUser.fullName]]

\* what authorize does: returns null, throws, or returns the user.
\* up = FALSE: connectDB or findOne throws.
authorize(credentials, up) ==
    IF credentials.email = <<>> \/ credentials.password = <<>>
    THEN [kind |-> "null", message |-> "", user |-> NoUser]
    ELSE IF ~up
    THEN [kind |-> "throw", message |-> "store unavailable", user |-> NoUser]
    ELSE IF findOneByEmail(credentials.email) = {}
    THEN [kind |-> "throw", message |-> "Invalid credentials", user |-> NoUser]
    ELSE LET i == CHOOSE i \in findOneByEmail(credentials.email) :
                      \A j \in findOneByEmail(credentials.email) : i <= j
             discussUser == users[i]
         IN  IF ~bcryptCompare(credentials.password, discussUser.password)
             THEN [kind |-> "throw", message |-> "Invalid credentials",
                   user |-> NoUser]
             ELSE [kind |-> "user", message |-> "",
                   user |-> [id |-> UserIds[i], email |-> discussUser.email,
                             name |-> discussUser.fullName]]

\* callbacks.jwt: the token of a signed-in user
jwt(user) == [id |-> user.id, email |-> user.email, name |-> user.name]

\* callbacks.session: the session read from a token
session(token) ==
    [user |-> [id |-> token.id, email |-> token.email, name |-> token.name]]

\* signIn("credentials", {redirect: false}): the response the client gets.
\* Its error tells a null result from a thrown error, and is taken to carry
\* the thrown message.
signIn(outcome) ==
    IF outcome.kind = "user" THEN [ok |-> TRUE, error |-> <<>>]
    ELSE IF outcome.kind = "null"
    THEN [ok |-> FALSE, error |-> <<"CredentialsSignin">>]
    ELSE [ok |-> FALSE, error |-> <<"CallbackRouteError", outcome.message>>]

NoLogin ==
    [cause |-> "none", who |-> 0,
     visible |-> [response |-> [ok |-> FALSE, error |-> <<>>], error |-> "",
                  route |-> "/login", issued |-> FALSE]]

\* why a login attempt must fail or succeed, told from the passwords the
\* stored users registered with
LoginCause(email, password, up) ==
    IF email = <<>> \/ password = <<>> THEN "missing"
    ELSE IF ~up THEN "unavailable"
    ELSE IF \A i \in 1..Len(users) : users[i].email # email THEN "unknown"
    ELSE IF \E i \in 1..Len(users) :
                users[i].email = email /\ plain[i] = password
    THEN "correct"
    ELSE "wrongpw"

\* history: the position of the stored user the attempt looked up, 0 when
\* it looked up none
LoginWho(email, password, up) ==
    IF email = <<>> \/ password = <<>> \/ ~up
       \/ \A i \in 1..Len(users) : users[i].email # email
    THEN 0
    ELSE CHOOSE i \in 1..Len(users) :
            /\ users[i].email = email
            /\ \A j \in 1..Len(users) : users[j].email = email => i <= j

\* the login page's handleSubmit for client c.  net = FALSE: the request
\* does not reach the server, signIn rejects and the catch block shows the
\* message of the error.
handleSubmit(c, email, password, up, net) ==
    LET outcome == authorize([email |-> email, password |-> password], up)
        res     == signIn(outcome)
    IN  /\ sessions' = IF net /\ outcome.kind = "user"
                       THEN [sessions EXCEPT ![c] = session(jwt(outcome.user))]
                       ELSE sessions
        /\ tokens' = IF net /\ outcome.kind = "user"
                     THEN [tokens EXCEPT ![c] = issueToken(now)]
                     ELSE tokens
        /\ login' = [login EXCEPT ![c] =
                IF ~net
                THEN [cause |-> "network", who |-> 0,
                      visible |-> [NoLogin.visible EXCEPT !.error = "Failed to fetch"]]
                ELSE
                [cause |-> LoginCause(email, password, up),
                 who |-> LoginWho(email, password, up),
                 visible |->
                    [response |-> res,
                     error |-> IF res.error # <<>>
                               THEN "Email or password is not correct" ELSE "",
                     route |-> IF res.error # <<>> THEN "/login" ELSE "/discussion",
                     issued |-> outcome.kind = "user"]]]
        /\ UNCHANGED <<users, discussions, comments, clock, calls, nCalls, track,
                       reply, plain, now, regs,
                       connection, card>>

(***************************************************************************)
(* Toggle calls.                                                           *)
(***************************************************************************)
Ops == {"toggleLike", "toggleCommentLike"}

Coll(op) == IF op = "toggleLike" THEN discussions ELSE comments

NoResult == [success |-> FALSE, error |-> "", upVote |-> 0, likedBy |-> FALSE]

\* the items the toggles are called for
Items == Ops \X TargetIds

\* what the properties compare of a document: the counter and the set of
\* elements of likedBy
View(doc) ==
    [upVote |-> doc.upVote,
     likers |-> {doc.likedBy[i] : i \in 1..Len(doc.likedBy)}]

NoView == [upVote |-> 0, likers |-> {}]

\* history, per item: the last toggle that updated it: its user, the item as
\* that toggle read it, the flag it returned, and whether the item was
\* updated by nobody else between that toggle's read and its update
NoTrack == [user |-> Undefined, pre |-> NoView, flag |-> FALSE, clean |-> FALSE]

\* history, per call: set when the call reads right after a clean toggle of
\* the same signed-in user: the item and flag of that first toggle
NoFirst == [valid |-> FALSE, pre |-> NoView, flag |-> FALSE]

FirstOf(t, userId) ==
    IF userId # Undefined /\ t.user = userId /\ t.clean
    THEN [valid |-> TRUE, pre |-> t.pre, flag |-> t.flag]
    ELSE NoFirst

NoPost == [upVote |-> 0, liked |-> FALSE, likers |-> {}]

\* a handler's call: pc, arguments and locals of the code (op, id, userId,
\* hasLiked, result), and history (fault: why it failed; wrote: it has
\* updated; torn: the item was updated by another call after this call read
\* it; seen, first, post: the item as read, the preceding toggle, the item
\* right after this call's update)
IdleCall ==
    [pc |-> "idle", op |-> "none", id |-> 0, userId |-> Undefined,
     hasLiked |-> FALSE, torn |-> FALSE, wrote |-> FALSE, fault |-> "none",
     result |-> NoResult, seen |-> NoView, first |-> NoFirst, post |-> NoPost]

\* message of the error thrown by the failing step
ErrorMessage(fault) ==
    IF fault = "notfound"
    THEN "Cannot read properties of null (reading 'likedBy')"
    ELSE "store unavailable"

\* a catch block that swallows the error into a success
CatchResultSwallowed(fault) ==
    [success |-> TRUE, error |-> "", upVote |-> 0, likedBy |-> FALSE]

\* the catch block: the failure result
CatchResult(fault) ==
    [success |-> FALSE, error |-> ErrorMessage(fault), upVote |-> 0,
     likedBy |-> FALSE]

\* the success result: updated?.upVote || 0 and !hasLiked
SuccessResult(updated, hasLiked) ==
    [success |-> TRUE, error |-> "",
     upVote |-> IF updated = <<>> \/ updated[1].upVote = 0 THEN 0
                ELSE updated[1].upVote,
     likedBy |-> ~hasLiked]

(***************************************************************************)
(* toggleLike / toggleCommentLike, first part: auth(), connectDB(),        *)
(* findById and the membership test.  up = FALSE: the store is unavailable *)
(* and connectDB or findById throws.                                       *)
(***************************************************************************)
ToggleRead(p, c, op, id, up) ==
    /\ calls[p].pc = "idle"
    /\ nCalls < MaxCalls
    /\ nCalls' = nCalls + 1
    /\ LET userId == SessionUserId(auth(c))
           call   == [IdleCall EXCEPT !.op = op, !.id = id, !.userId = userId]
           fail(f) == [call EXCEPT !.pc = "done", !.fault = f,
                                   !.result = CatchResult(f)]
       IN  IF ~up
           THEN /\ calls' = [calls EXCEPT ![p] = fail("unavailable")]
                /\ UNCHANGED track
           ELSE IF ~Resolves(Coll(op), id)
           THEN /\ calls' = [calls EXCEPT ![p] = fail("notfound")]
                /\ UNCHANGED track
           ELSE LET doc == Coll(op)[id]
                IN  /\ calls' = [calls EXCEPT ![p] =
                            [call EXCEPT !.pc = "read",
                                         !.hasLiked = includes(doc.likedBy, userId),
                                         !.seen = View(doc),
                                         !.first = FirstOf(track[<<op, id>>], userId)]]
                    /\ UNCHANGED track
    /\ UNCHANGED <<users, discussions, comments, clock, sessions, login, reply,
                   plain, tokens, now, regs,
                   connection, card>>

toggleLikeRead(p, c, id, up) == ToggleRead(p, c, "toggleLike", id, up)

toggleCommentLikeRead(p, c, id, up) == ToggleRead(p, c, "toggleCommentLike", id, up)

(***************************************************************************)
(* Second part: findByIdAndUpdate of the branch chosen by hasLiked, and    *)
(* the return value.  up = FALSE: the update throws and nothing is written.*)
(***************************************************************************)
ToggleUpdate(p, op, up, castNull) ==
    /\ calls[p].pc = "read"
    /\ calls[p].op = op
    /\ LET call == calls[p]
           id   == call.id
           upd  == IF call.hasLiked THEN UnlikeUpdate(call.userId)
                   ELSE LikeUpdate(call.userId)
           res  == findByIdAndUpdate(Coll(op), id, upd, castNull)
       IN  IF ~up
           THEN /\ calls' = [calls EXCEPT ![p] =
                        [call EXCEPT !.pc = "done", !.fault = "unavailable",
                                     !.result = CatchResult("unavailable")]]
                /\ UNCHANGED <<discussions, comments, track>>
           ELSE /\ IF op = "toggleLike"
                   THEN discussions' = res.coll /\ UNCHANGED comments
                   ELSE comments' = res.coll /\ UNCHANGED discussions
                /\ calls' = [q \in Procs |->
                        IF q = p
                        THEN [call EXCEPT
                                !.pc = "done", !.wrote = TRUE,
                                !.result = SuccessResult(res.docs, call.hasLiked),
                                !.post = [upVote |-> res.coll[id].upVote,
                                          liked |-> includes(res.coll[id].likedBy,
                                                             call.userId),
                                          likers |-> View(res.coll[id]).likers]]
                        ELSE IF calls[q].pc = "read" /\ calls[q].op = op
                                /\ calls[q].id = id
                        THEN [calls[q] EXCEPT !.torn = TRUE]
                        ELSE calls[q]]
                /\ track' = [track EXCEPT ![<<op, id>>] =
                        [user  |-> call.userId, pre |-> call.seen,
                         flag  |-> SuccessResult(res.docs, call.hasLiked).likedBy,
                         clean |-> ~call.torn]]
    /\ UNCHANGED <<users, clock, sessions, nCalls, login, reply, plain, tokens,
                   now, regs,
                   connection, card>>

toggleLikeUpdate(p, up, castNull) == ToggleUpdate(p, "toggleLike", up, castNull)

toggleCommentLikeUpdate(p, up, castNull) ==
    ToggleUpdate(p, "toggleCommentLike", up, castNull)

\* the caller receives the result; the handler is free again
ToggleReturn(p) ==
    /\ calls[p].pc = "done"
    /\ calls' = [calls EXCEPT ![p] = IdleCall]
    /\ UNCHANGED <<users, discussions, comments, clock, sessions, nCalls, track,
                   login, reply, plain, tokens, now, regs,
                   connection, card>>

(***************************************************************************)
(* Strings are sequences of characters.                                    *)
(***************************************************************************)
IsWhitespace(ch) == ch \in {" ", "\t", "\n"}

\* String.prototype.trim
RECURSIVE trimStart(_)
trimStart(str) ==
    IF str # <<>> /\ IsWhitespace(Head(str)) THEN trimStart(Tail(str)) ELSE str

RECURSIVE trimEnd(_)
trimEnd(str) ==
    IF str # <<>> /\ IsWhitespace(str[Len(str)])
    THEN trimEnd(SubSeq(str, 1, Len(str) - 1))
    ELSE str

trim(str) == trimEnd(trimStart(str))

(***************************************************************************)
(* Validation schemas (zod).  The checks of a string run in the order they *)
(* are chained: min and max see the string as given, trim then transforms  *)
(* the value handed on as data.                                            *)
(***************************************************************************)
TitleMin == 3
TitleMax == 200
DescriptionMin == 3
DescriptionMax == 1000
CommentMin == 1
CommentMax == 2000

\* length checks that exclude the limits themselves
StringIssuesExclusive(str, lo, minMsg, hi, maxMsg) ==
    (IF Len(str) <= lo THEN <<minMsg>> ELSE <<>>)
    \o (IF Len(str) >= hi THEN <<maxMsg>> ELSE <<>>)

\* z.string().min(lo, minMsg).max(hi, maxMsg): the issues, in order
StringIssues(str, lo, minMsg, hi, maxMsg) ==
    (IF Len(str) < lo THEN <<minMsg>> ELSE <<>>)
    \o (IF Len(str) > hi THEN <<maxMsg>> ELSE <<>>)

\* a schema that checks the description before the title
createDiscussionSchemaDescriptionFirst(title, description) ==
    LET issues ==
            StringIssues(description, DescriptionMin,
                         "Must not be less than 3 characters",
                         DescriptionMax, "Must not be more than 1000 characters")
            \o StringIssues(title, TitleMin, "Must not be less than 3 characters",
                            TitleMax, "Must not be more than 200 characters")
    IN  [success |-> issues = <<>>, issues |-> issues,
         data |-> [title |-> trim(title), description |-> trim(description)]]

\* createDiscussionSchema.safeParse({title, description})
createDiscussionSchema(title, description) ==
    LET issues ==
            StringIssues(title, TitleMin, "Must not be less than 3 characters",
                         TitleMax, "Must not be more than 200 characters")
            \o StringIssues(description, DescriptionMin,
                            "Must not be less than 3 characters",
                            DescriptionMax, "Must not be more than 1000 characters")
    IN  [success |-> issues = <<>>, issues |-> issues,
         data |-> [title |-> trim(title), description |-> trim(description)]]

\* createCommentSchema.safeParse({description})
createCommentSchema(description) ==
    LET issues ==
            StringIssues(description, CommentMin, "Comment cannot be empty",
                         CommentMax, "Comment must not exceed 2000 characters")
    IN  [success |-> issues = <<>>, issues |-> issues,
         data |-> [description |-> trim(description)]]

(***************************************************************************)
(* Registration: userResgistrationSchema, createDiscussAccount and the     *)
(* register page.                                                          *)
(***************************************************************************)
UpperChars == {"A", "B", "C", "D", "E", "F", "G", "H", "I", "J", "K", "L", "M",
               "N", "O", "P", "Q", "R", "S", "T", "U", "V", "W", "X", "Y", "Z"}
LowerChars == {"a", "b", "c", "d", "e", "f", "g", "h", "i", "j", "k", "l", "m",
               "n", "o", "p", "q", "r", "s", "t", "u", "v", "w", "x", "y", "z"}
DigitChars == {"0", "1", "2", "3", "4", "5", "6", "7", "8", "9"}

\* regex.test(str) for a one-character class
HasChar(str, class) == \E i \in 1..Len(str) : str[i] \in class
HasOther(str) ==
    \E i \in 1..Len(str) : str[i] \notin UpperChars \cup LowerChars \cup DigitChars

\* z.string().email(): local part, one @, a dotted domain ending in two or
\* more letters
IsEmail(str) ==
    \E k \in 2..Len(str) :
        /\ str[k] = "@"
        /\ \A i \in 1..Len(str) :
              /\ i # k => str[i] # "@"
              /\ ~IsWhitespace(str[i])
        /\ str[1] # "." /\ str[k - 1] # "."
        /\ k < Len(str) /\ str[k + 1] # "."
        /\ \E d \in (k + 2)..(Len(str) - 2) :
              /\ str[d] = "."
              /\ \A i \in (d + 1)..Len(str) : str[i] \in UpperChars \cup LowerChars

FullNameMin == 3
FullNameMax == 30
PasswordMin == 8

\* userResgistrationSchema.safeParse({email, password, fullName}): the
\* issues in the order of the schema's keys and of each key's checks
userResgistrationSchema(email, password, fullName) ==
    LET issues ==
            StringIssues(fullName, FullNameMin,
                         "Full name should be more than 3 characters",
                         FullNameMax,
                         "Full name should not be more than 30 characters")
            \o (IF IsEmail(email) THEN <<>> ELSE <<"Invalid email address">>)
            \o (IF Len(password) >= PasswordMin THEN <<>>
                ELSE <<"Password should be 8 or more characters long">>)
            \o (IF HasChar(password, UpperChars) THEN <<>>
                ELSE <<"Password must contain atleast one uppercase letter">>)
            \o (IF HasChar(password, LowerChars) THEN <<>>
                ELSE <<"Password must contain atleast one lowercase letter">>)
            \o (IF HasChar(password, DigitChars) THEN <<>>
                ELSE <<"Password must contain atleast one number">>)
            \o (IF HasOther(password) THEN <<>>
                ELSE <<"Password must contain at least one special character">>)
    IN  [success |-> issues = <<>>, issues |-> issues,
         data |-> [email |-> email, password |-> password,
                   fullName |-> trim(fullName)]]

\* what a createDiscussAccount call gives its caller: an object, or
\* undefined when the function ends without a return
RegValue(success, error) ==
    [kind |-> "value", success |-> success, error |-> error]
RegUndefined == [kind |-> "undefined", success |-> FALSE, error |-> ""]

\* result?.error of the register page
ResultError(result) == IF result.kind = "value" THEN result.error ELSE ""

\* the register page after the call: where it is and the error it shows
\* (the finally block clears the error)
RegisterPage(result) ==
    [route |-> IF ResultError(result) # "" THEN "/register" ELSE "/login",
     error |-> ""]

\* a handler's registration: pc, the validated data, the hash computed, the
\* result, the page of the client that called, and history (fault: what
\* went wrong in the store; dup: a user with the email was stored when the
\* call started; typed: the email, password and full name as given)
IdleReg ==
    [pc |-> "idle", email |-> <<>>, password |-> <<>>, fullName |-> <<>>,
     typed |-> <<>>,
     result |-> RegUndefined, page |-> [route |-> "/register", error |-> ""],
     fault |-> "none", dup |-> FALSE]

\* the register page's handleSubmit up to the first store access of
\* createDiscussAccount: the confirmation check, the validation, connectDB
\* and DiscussUser.findOne.  up = FALSE: the store access throws.
createDiscussAccountFind(p, email, password, confirmPassword, fullName, up) ==
    /\ regs[p].pc = "idle"
    /\ LET validation == userResgistrationSchema(email, password, fullName)
           data       == validation.data
           call       == [IdleReg EXCEPT !.typed = <<email, password, fullName>>,
                                         !.email = data.email,
                                         !.password = data.password,
                                         !.fullName = data.fullName,
                                         !.dup = \E i \in 1..Len(users) :
                                                    users[i].email = email]
           done(result, fault) ==
               [call EXCEPT !.pc = "done", !.result = result, !.fault = fault,
                            !.page = RegisterPage(result)]
       IN  regs' = [regs EXCEPT ![p] =
               IF password # confirmPassword
               THEN [call EXCEPT !.pc = "done", !.fault = "confirm",
                                 !.page = [route |-> "/register",
                                           error |-> "Password do not match"]]
               ELSE IF ~validation.success
               THEN done(RegValue(FALSE, validation.issues[1]), "invalid")
               ELSE IF ~up THEN done(RegUndefined, "unavailable")
               ELSE IF findOneByEmail(data.email) # {}
               THEN done(RegValue(FALSE, "User already exists"), "none")
               ELSE [call EXCEPT !.pc = "found"]]
    /\ UNCHANGED <<users, discussions, comments, clock, sessions, calls, nCalls,
                   track, login, reply, plain, tokens, now,
                   connection, card>>

\* a store whose email path has no unique index
UniqueEmailNone(email) == TRUE

\* the unique index on DiscussUser.email: an insert of an email that is
\* stored already is refused with a duplicate-key error
UniqueEmail(email) == \A i \in 1..Len(users) : users[i].email # email

\* the second part: bcrypt.hash, DiscussUser.create, the return value and
\* the rest of the page's handleSubmit
createDiscussAccountCreate(p, up) ==
    /\ regs[p].pc = "found"
    /\ LET call == regs[p]
           salt == <<"salt", Len(users) + 1>>
           done(result, fault) ==
               [call EXCEPT !.pc = "done", !.result = result, !.fault = fault,
                            !.page = RegisterPage(result)]
       IN  IF ~up
           THEN /\ regs' = [regs EXCEPT ![p] = done(RegUndefined, "unavailable")]
                /\ UNCHANGED <<users, plain>>
           ELSE IF ~UniqueEmail(call.email)
           THEN /\ regs' = [regs EXCEPT ![p] = done(RegUndefined, "duplicate")]
                /\ UNCHANGED <<users, plain>>
           ELSE /\ users' = Append(users, UserDoc(call.email, call.password,
                                                  call.fullName, salt))
                /\ plain' = Append(plain, call.password)
                /\ regs' = [regs EXCEPT ![p] = done(RegValue(TRUE, ""), "none")]
    /\ UNCHANGED <<discussions, comments, clock, sessions, calls, nCalls, track,
                   login, reply, tokens, now,
                   connection, card>>

(***************************************************************************)
(* States of the stores.                                                   *)
(***************************************************************************)
\* a discussion as DiscussDiscussion.create stores it
DiscussionDoc(userId, title, description, createdAt) ==
    [userId |-> userId, title |-> title, description |-> description,
     upVote |-> 0, likedBy |-> <<>>, createdAt |-> createdAt]

\* a comment as DiscussComment.create stores it
CommentDoc(discussId, userId, description, createdAt) ==
    [discussId |-> discussId, userId |-> userId, description |-> description,
     upVote |-> 0, likedBy |-> <<>>, createdAt |-> createdAt]

\* mongoose casts userId to an ObjectId: the ids of the store are castable,
\* the empty string and undefined are not
IsObjectId(userId) == \E i \in 1..Len(UserIds) : UserIds[i] = userId

\* mongoose `required` on a String path: fails on undefined, null and ""
RequiredString(defined, v) == defined /\ v # <<>>

\* what a content or listing call gives its caller.  kind: a returned value,
\* undefined (the function ended without a return) or a thrown error.
\* History: input, the strings the call was given; client, the caller;
\* viewer, the user id auth() gave the call; fault, what went wrong in
\* the store.
\* err.message of an error thrown by connectDB or a query
StoreError == "store unavailable"

NoReply ==
    [op |-> "none", kind |-> "value", success |-> FALSE, error |-> "",
     data |-> <<>>, input |-> <<>>, client |-> "none", viewer |-> Undefined,
     fault |-> "none"]

(***************************************************************************)
(* addDiscussion(title, description, userId)                               *)
(***************************************************************************)
addDiscussion(c, title, description, userId, up) ==
    LET validation == createDiscussionSchema(title, description)
        called     == [NoReply EXCEPT !.op = "addDiscussion", !.client = c,
                                      !.input = <<title, description>>]
        fail(msg)  == /\ reply' = [called EXCEPT
                                        !.error = msg,
                                        !.fault = IF msg = StoreError
                                                  THEN "unavailable" ELSE "none"]
                      /\ UNCHANGED <<discussions, clock>>
        doc        == DiscussionDoc(userId, validation.data.title,
                                    validation.data.description, clock)
    IN  /\ IF ~validation.success THEN fail(validation.issues[1])
           ELSE IF trim(title) = <<>> \/ trim(description) = <<>>
           THEN fail("Both the feilds are required")
           ELSE IF ~up THEN fail(StoreError)
           ELSE IF ~(IsObjectId(userId) /\ RequiredString(TRUE, doc.title)
                     /\ RequiredString(TRUE, doc.description))
           THEN fail("Discussion validation failed")
           ELSE /\ discussions' = Append(discussions, doc)
                /\ clock' = clock + 1
                /\ reply' = [called EXCEPT !.success = TRUE, !.data = <<doc>>]
        /\ UNCHANGED <<users, comments, sessions, calls, nCalls, track, login,
                       plain, tokens, now, regs,
                       connection, card>>

(***************************************************************************)
(* addComment(discussId, description, userId)                              *)
(***************************************************************************)
addComment(c, discussId, description, userId, up) ==
    LET validation == createCommentSchema(description)
        called     == [NoReply EXCEPT !.op = "addComment", !.client = c,
                                      !.input = <<description>>]
        fail(msg)  == /\ reply' = [called EXCEPT
                                        !.error = msg,
                                        !.fault = IF up THEN "none"
                                                  ELSE "unavailable"]
                      /\ UNCHANGED <<comments, clock>>
        \* validation.data?.description: undefined when the parse failed
        defined    == validation.success
        text       == validation.data.description
        doc        == CommentDoc(discussId, userId, text, clock)
    IN  /\ IF ~up THEN fail("An unexpected error occurred")
           ELSE IF ~(IsObjectId(userId) /\ RequiredString(defined, text))
           THEN fail("An unexpected error occurred")
           ELSE /\ comments' = Append(comments, doc)
                /\ clock' = clock + 1
                /\ reply' = [called EXCEPT !.success = TRUE, !.data = <<doc>>]
        /\ UNCHANGED <<users, discussions, sessions, calls, nCalls, track, login,
                       plain, tokens, now, regs,
                       connection, card>>

(***************************************************************************)
(* Listings and the detail page.  A call reads the store in one step;      *)
(* up = FALSE: connectDB or a query throws.                                *)
(***************************************************************************)
\* populate("userId", "fullName"): the full name of the referenced user
FullNameOf(userId) ==
    IF \E i \in 1..Len(users) : UserIds[i] = userId
    THEN LET i == CHOOSE i \in 1..Len(users) : UserIds[i] = userId
         IN  [defined |-> TRUE, name |-> users[i].fullName]
    ELSE [defined |-> FALSE, name |-> <<>>]

\* a flag that is set whenever anybody likes the document
IsLikedByAnybody(doc, currentUserId) == doc.likedBy # <<>>

\* currentUserId ? likedBy.includes(currentUserId) : false
IsLikedBy(doc, currentUserId) ==
    IF currentUserId = Undefined THEN FALSE
    ELSE includes(doc.likedBy, currentUserId)

\* the row getDiscussions returns for document number i of a collection: of
\* the discussions with its title, of the comments with its discussId.
\* populate leaves null where the referenced user does not exist, and
\* userId?.toString() and userId?.fullName of null are undefined
Row(coll, i, currentUserId) ==
    [id |-> i,
     userId |-> IF FullNameOf(coll[i].userId).defined THEN coll[i].userId
                ELSE Undefined,
     head |-> IF "title" \in DOMAIN coll[i] THEN coll[i].title
              ELSE <<coll[i].discussId>>,
     description |-> coll[i].description,
     upVote |-> coll[i].upVote, createdAt |-> coll[i].createdAt,
     createdBy |-> FullNameOf(coll[i].userId),
     isLikedByCurrentUser |-> IsLikedBy(coll[i], currentUserId)]

\* find(filter).sort({createdAt: dir}): the positions of the matching
\* documents in the order of the sort; documents are stored in the order
\* of their creation
RECURSIVE Sorted(_, _)
Sorted(positions, descending) ==
    IF positions = {} THEN <<>>
    ELSE LET i == CHOOSE i \in positions :
                    \A j \in positions : IF descending THEN j <= i ELSE i <= j
         IN  <<i>> \o Sorted(positions \ {i}, descending)

Rows(coll, positions, descending, currentUserId) ==
    LET order == Sorted(positions, descending)
    IN  [k \in 1..Len(order) |-> Row(coll, order[k], currentUserId)]

\* userId?.fullName || "Unknown User"
UnknownUser ==
    <<"U", "n", "k", "n", "o", "w", "n", " ", "U", "s", "e", "r">>

OrUnknownUser(fullName) ==
    IF fullName.defined /\ fullName.name # <<>> THEN fullName
    ELSE [defined |-> TRUE, name |-> UnknownUser]

\* the rows of getMyDiscussions and getCommentByDiscussionId
NamedRows(coll, positions, descending, currentUserId) ==
    LET rows == Rows(coll, positions, descending, currentUserId)
    IN  [k \in DOMAIN rows |->
            [rows[k] EXCEPT !.userId = coll[rows[k].id].userId,
                            !.createdBy = OrUnknownUser(@)]]

\* userId.toString() of these two listings throws a TypeError where
\* populate left null
Populated(coll, positions) ==
    \A i \in positions : FullNameOf(coll[i].userId).defined

\* the catch block of a listing: the error is logged and [] is returned
ListingCaught(op, c) ==
    [NoReply EXCEPT !.op = op, !.client = c, !.fault = "unavailable"]

\* a listing that lets the error reach its caller
ListingCaughtThrows(op, c) ==
    [NoReply EXCEPT !.op = op, !.client = c, !.fault = "unavailable",
                    !.kind = "throw", !.error = "store unavailable"]

ListingReturn(op, c, viewer, rows) ==
    [NoReply EXCEPT !.op = op, !.client = c, !.viewer = viewer,
                    !.success = TRUE, !.data = rows]

ReadUnchanged ==
    UNCHANGED <<users, discussions, comments, clock, sessions, calls, nCalls,
                track, login, plain, tokens, now, regs,
                connection, card>>

getDiscussions(c, up) ==
    /\ reply' = IF ~up THEN ListingCaught("getDiscussions", c)
                ELSE LET currentUserId == SessionUserId(auth(c))
                     IN  ListingReturn("getDiscussions", c, currentUserId,
                             Rows(discussions, 1..Len(discussions), TRUE,
                                  currentUserId))
    /\ ReadUnchanged

getMyDiscussions(c, userId, up) ==
    /\ reply' = LET mine == {i \in 1..Len(discussions) :
                                discussions[i].userId = userId}
                IN  IF ~up THEN ListingCaught("getMyDiscussions", c)
                    ELSE IF ~Populated(discussions, mine)
                    THEN [ListingCaught("getMyDiscussions", c) EXCEPT
                              !.viewer = userId, !.fault = "owner"]
                    ELSE ListingReturn("getMyDiscussions", c, userId,
                            NamedRows(discussions, mine, TRUE, userId))
    /\ ReadUnchanged

getCommentByDiscussionId(c, discussId, up) ==
    /\ reply' = LET currentUserId == SessionUserId(auth(c))
                    its == {i \in 1..Len(comments) :
                               comments[i].discussId = discussId}
                IN  IF ~up THEN ListingCaught("getCommentByDiscussionId", c)
                    ELSE IF ~Populated(comments, its)
                    THEN [ListingCaught("getCommentByDiscussionId", c) EXCEPT
                              !.viewer = currentUserId, !.fault = "owner"]
                    ELSE ListingReturn("getCommentByDiscussionId", c,
                             currentUserId,
                             NamedRows(comments, its, FALSE, currentUserId))
    /\ ReadUnchanged

\* getDiscussionById has no try: an error of the store reaches the caller;
\* an id that resolves to nothing gives null
getDiscussionById(c, id, up) ==
    /\ reply' = IF ~up
                THEN [NoReply EXCEPT !.op = "getDiscussionById", !.client = c,
                                     !.kind = "throw", !.fault = "unavailable",
                                     !.error = "store unavailable"]
                ELSE LET currentUserId == SessionUserId(auth(c))
                     IN  IF ~Resolves(discussions, id)
                         THEN [NoReply EXCEPT !.op = "getDiscussionById",
                                              !.client = c,
                                              !.viewer = currentUserId,
                                              !.fault = "notfound"]
                         ELSE ListingReturn("getDiscussionById", c, currentUserId,
                                  <<[Row(discussions, id, currentUserId) EXCEPT
                                        !.userId = discussions[id].userId]>>)
    /\ ReadUnchanged

\* time passes
Tick(t) ==
    /\ t > now
    /\ now' = t
    /\ UNCHANGED <<users, discussions, comments, clock, sessions, calls, nCalls,
                   track, login, reply, plain, tokens, regs,
                   connection, card>>

(***************************************************************************)
(* connectDB (app/lib/mongodb.ts).  Every server action starts with it; a  *)
(* call has two steps, up to the await and after it.                       *)
(***************************************************************************)
\* uri: process.env.MONGODB_URI is set; connects: the connections started
\* by mongoose.connect so far; at: per handler, where its connectDB call is
\* (idle, connecting, returned: it has the handle, threw)
NoConnection ==
    [uri |-> TRUE, connects |-> 0, at |-> [p \in Procs |-> "idle"]]

\* mongoose.connect(MONGODB_URI) of one call: the module keeps neither the
\* promise nor the handle, so every call starts a connection
connect == connection.connects + 1

\* connectDB up to its await: throws without a URI, else starts connecting
connectDB(p) ==
    /\ connection.at[p] # "connecting"
    /\ connection.connects < MaxConnects
    /\ connection' =
          IF ~connection.uri
          THEN [connection EXCEPT !.at[p] = "threw"]
          ELSE [connection EXCEPT !.connects = connect, !.at[p] = "connecting"]
    /\ UNCHANGED <<users, discussions, comments, clock, sessions, calls, nCalls,
                   track, login, reply, plain, tokens, now, regs, card>>

\* the await ends: the handle is returned, or the connection failed and
\* the rejection reaches the caller
connectDBReturn(p, up) ==
    /\ connection.at[p] = "connecting"
    /\ connection' = [connection EXCEPT
                          !.at[p] = IF up THEN "returned" ELSE "threw"]
    /\ UNCHANGED <<users, discussions, comments, clock, sessions, calls, nCalls,
                   track, login, reply, plain, tokens, now, regs, card>>

(***************************************************************************)
(* The like buttons: DiscussionCardItem, DiscussionDetailCard and          *)
(* CommentCard.  handleLike runs up to its await, then the server call     *)
(* settles.                                                                *)
(***************************************************************************)
Components == {"DiscussionCardItem", "DiscussionDetailCard", "CommentCard"}

\* the outcomes of the awaited server call: a success result with the
\* stored count and flag, a failure result, and a rejection
Outcomes ==
    [kind : {"success"}, upVote : 0..MaxShown, likedBy : BOOLEAN]
    \cup {[kind |-> "failure", upVote |-> 0, likedBy |-> FALSE],
          [kind |-> "throw", upVote |-> 0, likedBy |-> FALSE]}

\* the component's state (isLiked, upvoteCount, isLoading), the locals of
\* handleLike (previousIsLiked, previousUpVoteCount), where handleLike is,
\* and history: the outcome of the last call
Card(component, isLikedByCurrentUser, upVote) ==
    [component |-> component, isLiked |-> isLikedByCurrentUser,
     upvoteCount |-> upVote, isLoading |-> FALSE,
     previousIsLiked |-> FALSE, previousUpVoteCount |-> 0,
     pc |-> "idle",
     outcome |-> [kind |-> "none", upVote |-> 0, likedBy |-> FALSE]]

NoCard == Card("none", FALSE, 0)

\* handleLike up to the await: the optimistic update.  The button is
\* disabled while isLoading.
handleLike(component) ==
    /\ card.component = component
    /\ card.pc # "waiting"
    /\ ~card.isLoading
    /\ card' = [card EXCEPT
                    !.previousIsLiked = card.isLiked,
                    !.previousUpVoteCount = card.upvoteCount,
                    !.isLiked = ~card.isLiked,
                    !.upvoteCount = IF card.isLiked THEN card.upvoteCount - 1
                                    ELSE card.upvoteCount + 1,
                    !.isLoading = TRUE,
                    !.pc = "waiting"]
    /\ UNCHANGED <<users, discussions, comments, clock, sessions, calls, nCalls,
                   track, login, reply, plain, tokens, now, regs, connection>>

\* the state after a success result, and after a failure result or a
\* caught rejection
Shown(c, outcome) ==
    [c EXCEPT !.isLiked = outcome.likedBy, !.upvoteCount = outcome.upVote]
RolledBack(c) ==
    [c EXCEPT !.isLiked = c.previousIsLiked,
              !.upvoteCount = c.previousUpVoteCount]

\* try / catch / finally after the await; catches: the handler has a
\* catch block.  Without one the rejection leaves through finally.
Settled(c, outcome, catches) ==
    [(IF outcome.kind = "success" THEN Shown(c, outcome)
      ELSE IF outcome.kind = "failure" \/ catches THEN RolledBack(c)
      ELSE c)
     EXCEPT !.isLoading = FALSE, !.pc = "settled", !.outcome = outcome]

HandleLikeSettles(component, outcome, catches) ==
    /\ card.component = component
    /\ card.pc = "waiting"
    /\ card' = Settled(card, outcome, catches)
    /\ UNCHANGED <<users, discussions, comments, clock, sessions, calls, nCalls,
                   track, login, reply, plain, tokens, now, regs, connection>>

DiscussionCardItemSettles(outcome) ==
    HandleLikeSettles("DiscussionCardItem", outcome, TRUE)

DiscussionDetailCardSettles(outcome) ==
    HandleLikeSettles("DiscussionDetailCard", outcome, TRUE)

CommentCardSettles(outcome) ==
    HandleLikeSettles("CommentCard", outcome, FALSE)

(***************************************************************************)
(* The vote toggle: two users signed in, one client without a session,     *)
(* and freshly created content.                                            *)
(***************************************************************************)
\* the text of the stored content
SomeText == <<"H", "i", " ", "T", "h", "e", "r", "e">>

Init ==
    /\ users = Accounts
    /\ discussions = [i \in 1..MaxItems |->
            DiscussionDoc("u1", trim(SomeText), trim(SomeText), i)]
    /\ comments = [i \in 1..MaxItems |->
            CommentDoc(1, "u2", trim(SomeText), MaxItems + i)]
    /\ clock = MaxItems + MaxItems + 1
    /\ sessions = [c \in Clients |->
            IF c = "c1" THEN SessionOf(1)
            ELSE IF c = "c2" THEN SessionOf(2) ELSE NoSession]
    /\ calls = [p \in Procs |-> IdleCall]
    /\ nCalls = 0
    /\ track = [i \in Items |-> NoTrack]
    /\ login = [c \in Clients |-> NoLogin]
    /\ reply = NoReply
    /\ plain = PlainOf(Len(users))
    /\ now = 0
    /\ tokens = [c \in Clients |->
            IF sessions[c] = NoSession THEN NoToken ELSE issueToken(now)]
    /\ regs = [p \in Procs |-> IdleReg]
    /\ connection = NoConnection
    /\ card = NoCard

Next ==
    \/ \E p \in Workers, c \in Clients, id \in TargetIds, up \in BOOLEAN :
          toggleLikeRead(p, c, id, up)
    \/ \E p \in Workers, c \in Clients, id \in TargetIds, up \in BOOLEAN :
          toggleCommentLikeRead(p, c, id, up)
    \/ \E p \in Workers, up \in BOOLEAN, castNull \in BOOLEAN :
          toggleLikeUpdate(p, up, castNull)
    \/ \E p \in Workers, up \in BOOLEAN, castNull \in BOOLEAN :
          toggleCommentLikeUpdate(p, up, castNull)
    \/ \E p \in Workers : ToggleReturn(p)

Spec == Init /\ [][Next]_vars

(***************************************************************************)
(* Properties of the vote toggle.                                          *)
(***************************************************************************)
\* every stored content document, discussions and comments alike
StoredDocs ==
    {discussions[i] : i \in 1..Len(discussions)}
    \cup {comments[i] : i \in 1..Len(comments)}

\* the user ids among the elements of a likedBy array
Likers(doc) ==
    {doc.likedBy[i] : i \in 1..Len(doc.likedBy)} \ {Null, Undefined}

\* how often v occurs in arr
Occurrences(arr, v) == Cardinality({i \in 1..Len(arr) : arr[i] = v})

\* C1: the stored upVote of every discussion and comment equals the number
\* of distinct user ids in its likedBy, in every reachable state.
C1_UpVoteEqualsLikers ==
    \A doc \in StoredDocs : doc.upVote = Cardinality(Likers(doc))

\* C2: likedBy of every discussion and comment contains each user id at
\* most once, in every reachable state.
C2_NoDuplicateLiker ==
    \A doc \in StoredDocs :
        \A u \in Likers(doc) : Occurrences(doc.likedBy, u) <= 1

\* C3: the upVote counter of every discussion and comment is never
\* negative.
C3_UpVoteNonNegative == \A doc \in StoredDocs : doc.upVote >= 0

\* C4: the membership test and the update of one toggle call are one atomic
\* store operation: no call that has written saw another toggle of the same
\* item take effect between its read and its update.
C4_ToggleAtomic == \A p \in Procs : calls[p].wrote => ~calls[p].torn

\* C6: two toggles of one item by the same signed-in user, one after the
\* other with no other toggle of the item taking effect from the read of
\* the first to the update of the second, bring upVote and the set of
\* likers back to their values before the first, and return opposite liked
\* flags, the first being true exactly when the user had not liked the item.
C6_TwoTogglesRestore ==
    \A p \in Procs :
        LET call == calls[p]
        IN  (call.pc = "done" /\ call.wrote /\ ~call.torn /\ call.first.valid) =>
              /\ call.post.upVote = call.first.pre.upVote
              /\ call.post.likers = call.first.pre.likers
              /\ call.result.likedBy = ~call.first.flag
              /\ call.first.flag = (call.userId \notin call.first.pre.likers)

\* C6 happens: a user who had liked an item has unliked it and liked it
\* again in two successive toggles
C6_Witness ==
    \E p \in Procs :
        /\ calls[p].pc = "done" /\ calls[p].wrote /\ ~calls[p].torn
        /\ calls[p].first.valid /\ ~calls[p].first.flag
        /\ calls[p].result.likedBy

\* C7: every successful toggle returns the upVote stored right after its
\* update and a liked flag that tells whether the acting user is in likedBy
\* right after its update.
C7_ReturnsStateAfterUpdate ==
    \A p \in Procs :
        (calls[p].pc = "done" /\ calls[p].result.success) =>
            /\ calls[p].result.upVote = calls[p].post.upVote
            /\ calls[p].result.likedBy = calls[p].post.liked

\* C8: a toggle called without a session user id fails: it returns
\* success = false and writes nothing.
C8_GuestToggleFails ==
    \A p \in Procs :
        (calls[p].pc = "done" /\ calls[p].userId = Undefined) =>
            ~calls[p].result.success /\ ~calls[p].wrote

\* C9: a toggle whose id resolves to no stored item, or during which the
\* store is unavailable, returns success = false with an error message, and
\* the step that fails, like the whole call, leaves every stored discussion
\* and comment as it was.
C9_FailedToggleChangesNothing ==
    [][\A p \in Procs :
          (calls[p].pc # "done" /\ calls'[p].pc = "done"
           /\ calls'[p].fault \in {"notfound", "unavailable"}) =>
              /\ ~calls'[p].result.success
              /\ calls'[p].result.error # ""
              /\ ~calls'[p].wrote
              /\ discussions' = discussions
              /\ comments' = comments]_vars

\* C9 happens: one call has failed on an unresolved id and another on an
\* unavailable store after its read, while the item carries a like
C9_Witness ==
    \E p, q \in Procs :
        /\ calls[p].pc = "done" /\ calls[p].fault = "notfound"
        /\ calls[q].pc = "done" /\ calls[q].fault = "unavailable"
        /\ Resolves(Coll(calls[q].op), calls[q].id)
        /\ Coll(calls[q].op)[calls[q].id].upVote > 0

(***************************************************************************)
(* Concurrent likes: every client is signed in as a user of its own, and   *)
(* each sends one toggle for the first discussion or the first comment,    *)
(* which nobody has liked.  Client and handler are paired, and a finished  *)
(* call stays finished.                                                    *)
(***************************************************************************)
ClientOf(p) == IF p = "p1" THEN "c1" ELSE IF p = "p2" THEN "c2" ELSE "c3"

InitLikes ==
    /\ users = Accounts
    /\ discussions = [i \in 1..MaxItems |->
            DiscussionDoc("u1", trim(SomeText), trim(SomeText), i)]
    /\ comments = [i \in 1..MaxItems |->
            CommentDoc(1, "u2", trim(SomeText), MaxItems + i)]
    /\ clock = MaxItems + MaxItems + 1
    /\ sessions = [c \in Clients |->
            IF c = "c1" THEN SessionOf(1)
            ELSE IF c = "c2" THEN SessionOf(2) ELSE SessionOf(3)]
    /\ calls = [p \in Procs |-> IdleCall]
    /\ nCalls = 0
    /\ track = [i \in Items |-> NoTrack]
    /\ login = [c \in Clients |-> NoLogin]
    /\ reply = NoReply
    /\ plain = PlainOf(Len(users))
    /\ now = 0
    /\ tokens = [c \in Clients |->
            IF sessions[c] = NoSession THEN NoToken ELSE issueToken(now)]
    /\ regs = [p \in Procs |-> IdleReg]
    /\ connection = NoConnection
    /\ card = NoCard

NextLikes ==
    \/ \E p \in Procs, up \in BOOLEAN : toggleLikeRead(p, ClientOf(p), 1, up)
    \/ \E p \in Procs, up \in BOOLEAN : toggleCommentLikeRead(p, ClientOf(p), 1, up)
    \/ \E p \in Procs, up \in BOOLEAN : toggleLikeUpdate(p, up, FALSE)
    \/ \E p \in Procs, up \in BOOLEAN : toggleCommentLikeUpdate(p, up, FALSE)

SpecLikes == InitLikes /\ [][NextLikes]_vars

\* the calls on the first document of op's collection
CallsOn(op) == {p \in Procs : calls[p].pc # "idle" /\ calls[p].op = op}

\* those of them that have returned success
Succeeded(op) == {p \in CallsOn(op) : calls[p].pc = "done" /\ calls[p].result.success}

\* C5: when N distinct users, none of whom has liked an item, have each
\* sent one toggle for it concurrently and all calls have returned, N of
\* them with success, upVote has grown by exactly N (from 0 to N) and
\* likedBy holds exactly the ids of those N users, each once.
C5_ConcurrentLikesAllCounted ==
    \A op \in Ops :
        (\A p \in CallsOn(op) : calls[p].pc = "done") =>
            LET doc == Coll(op)[1]
            IN  /\ doc.upVote = Cardinality(Succeeded(op))
                /\ Len(doc.likedBy) = Cardinality(Succeeded(op))
                /\ {doc.likedBy[i] : i \in 1..Len(doc.likedBy)}
                     = {calls[p].userId : p \in Succeeded(op)}

\* C5 happens: three users have liked the same item, all three having read
\* before any of them updated
C5_Witness ==
    \E op \in Ops :
        /\ CallsOn(op) = Procs
        /\ \A p \in Procs : calls[p].pc = "done" /\ calls[p].result.success
        /\ Cardinality({p \in Procs : calls[p].torn}) = 2

(***************************************************************************)
(* Login: some of the registrations have been made, nobody is signed in,   *)
(* and the clients submit the login form.                                  *)
(***************************************************************************)
InitAuth ==
    /\ users \in {SubSeq(Accounts, 1, n) : n \in 0..Len(Accounts)}
    /\ discussions = <<>>
    /\ comments = <<>>
    /\ clock = 0
    /\ sessions = [c \in Clients |-> NoSession]
    /\ calls = [p \in Procs |-> IdleCall]
    /\ nCalls = 0
    /\ track = [i \in Items |-> NoTrack]
    /\ login = [c \in Clients |-> NoLogin]
    /\ reply = NoReply
    /\ plain = PlainOf(Len(users))
    /\ now = 0
    /\ tokens = [c \in Clients |->
            IF sessions[c] = NoSession THEN NoToken ELSE issueToken(now)]
    /\ regs = [p \in Procs |-> IdleReg]
    /\ connection = NoConnection
    /\ card = NoCard

\* what the clients type into the form
TypedEmails ==
    {<<>>, Registrations[1].email, Registrations[2].email,
     <<"z", "@", "x", ".", "c", "o", "m">>}

TypedPasswords == {<<>>, Registrations[1].password, Registrations[2].password}

NextAuth ==
    \E c \in Clients, email \in TypedEmails, password \in TypedPasswords,
       up \in BOOLEAN, net \in BOOLEAN :
        handleSubmit(c, email, password, up, net)

SpecAuth == InitAuth /\ [][NextAuth]_vars

\* C10: a login with an email that is not in the credential store and a
\* login with a stored email and a wrong password give the caller the same
\* outcome: the same response and error, no session issued.
C10_NoUserEnumeration ==
    \A c, d \in Clients :
        (login[c].cause = "unknown" /\ login[d].cause = "wrongpw") =>
            /\ login[c].visible = login[d].visible
            /\ ~login[c].visible.issued
            /\ login[c].visible.error # ""

\* C10 happens: one client has tried an unknown email, another a stored
\* email with a wrong password, and a third has signed in
C10_Witness ==
    \E c, d, e \in Clients :
        /\ login[c].cause = "unknown"
        /\ login[d].cause = "wrongpw"
        /\ login[e].cause = "correct" /\ sessions[e] # NoSession

\* C11: a login step gives a client a session only when the attempt looked
\* up a stored user by the typed email and the typed password is the one
\* that user registered with; the session then carries that user's id,
\* email and name; every other attempt (missing email or password, unknown
\* email, wrong password, store or network failure) leaves the client's
\* session as it was, Anonymous for a client that had none.  In every state
\* a session is that of a stored user.
C11_SessionOnlyForVerifiedUser ==
    [][\A c \in Clients :
          /\ (sessions'[c] # sessions[c] \/ tokens'[c] # tokens[c]) =>
                /\ login'[c].cause = "correct"
                /\ login'[c].who \in 1..Len(users)
                /\ users[login'[c].who].email = sessions'[c].user.email
                /\ sessions'[c] = SessionOf(login'[c].who)
                /\ tokens'[c] # NoToken
          /\ (login'[c] # login[c] /\ login'[c].cause # "correct") =>
                /\ sessions'[c] = sessions[c]
                /\ tokens'[c] = tokens[c]
                /\ ~login'[c].visible.issued
          /\ sessions'[c] # NoSession =>
                \E i \in 1..Len(users) : sessions'[c] = SessionOf(i)]_vars

\* C11 happens: one client has signed in as the second stored user, and
\* attempts with a missing password, an unknown email and a wrong password
\* have left other clients without a session
C11_Witness ==
    \E c, d, e \in Clients :
        /\ login[c].cause = "correct" /\ login[c].who = 2
        /\ sessions[c] = SessionOf(2)
        /\ login[d].cause = "wrongpw" /\ sessions[d] = NoSession
        /\ login[e].cause \in {"missing", "unknown"} /\ sessions[e] = NoSession

(***************************************************************************)
(* Accounts: nobody is registered; two handlers run registrations, which   *)
(* may overlap, and two clients submit the login form.                     *)
(***************************************************************************)
\* a password longer than bcrypt's key, and one that differs from it after
\* the key's last byte
LongPrefix ==
    [i \in 1..BcryptMaxBytes |->
        IF i = 1 THEN "A" ELSE IF i = 2 THEN "1" ELSE IF i = 3 THEN "!" ELSE "a"]
LongPassword == Append(LongPrefix, "x")
LongPasswordOther == Append(LongPrefix, "y")

RegEmails == {Registrations[1].email, Registrations[2].email,
              <<"a", "x", ".", "c", "o", "m">>}
RegPasswords == {Registrations[1].password, LongPassword,
                 <<"a", "b", "c", "d", "e", "f", "g", "h">>}
RegNames == {Registrations[1].fullName}
LoginPasswords == {Registrations[1].password, Registrations[2].password,
                   LongPassword, LongPasswordOther}
LoginClients == {"c1", "c2"}

InitAccounts ==
    /\ users = <<>>
    /\ discussions = <<>>
    /\ comments = <<>>
    /\ clock = 0
    /\ sessions = [c \in Clients |-> NoSession]
    /\ calls = [p \in Procs |-> IdleCall]
    /\ nCalls = 0
    /\ track = [i \in Items |-> NoTrack]
    /\ login = [c \in Clients |-> NoLogin]
    /\ reply = NoReply
    /\ plain = <<>>
    /\ now = 0
    /\ tokens = [c \in Clients |-> NoToken]
    /\ regs = [p \in Procs |-> IdleReg]
    /\ connection = NoConnection
    /\ card = NoCard

NextAccounts ==
    \/ \E p \in Workers, email \in RegEmails, password \in RegPasswords,
          fullName \in RegNames, up \in BOOLEAN :
          \E confirmPassword \in {password, <<>>} :
            createDiscussAccountFind(p, email, password, confirmPassword,
                                     fullName, up)
    \/ \E p \in Workers, up \in BOOLEAN : createDiscussAccountCreate(p, up)
    \/ \E c \in LoginClients, email \in RegEmails, password \in LoginPasswords :
          handleSubmit(c, email, password, TRUE, TRUE)

SpecAccounts == InitAccounts /\ [][NextAccounts]_vars

\* C12: once a user is registered, a login with its email is Authenticated
\* exactly when the typed password is the one it registered with.
C12_LoginIffSamePassword ==
    \A c \in Clients :
        login[c].cause \in {"correct", "wrongpw"} =>
            (login[c].visible.issued <=> login[c].cause = "correct")

\* C15: a createDiscussAccount call with valid input, for an email a stored
\* user has when the call starts, returns {success: false, error: "User
\* already exists"} when its lookup is answered, and stores nothing.
C15_DuplicateEmailRefused ==
    [][\A p \in Procs :
          (regs[p].pc = "idle" /\ regs'[p].pc # "idle" /\ regs'[p].dup
           /\ regs'[p].fault \notin {"confirm", "invalid", "unavailable"}) =>
              /\ regs'[p].pc = "done"
              /\ regs'[p].result = RegValue(FALSE, "User already exists")
              /\ users' = users]_vars

\* C15 happens: a registration has succeeded and a later one for the same
\* email has been refused
C15_Witness ==
    \E p, q \in Procs :
        /\ regs[p].pc = "done" /\ regs[p].result = RegValue(TRUE, "")
        /\ regs[q].pc = "done" /\ regs[q].dup /\ regs[q].email = regs[p].email
        /\ regs[q].result = RegValue(FALSE, "User already exists")

\* C16: no two stored users have the same email, and of the registrations
\* for one email at most one reports success, also when two of them pass
\* the lookup before either creates the user.
C16_EmailUnique ==
    /\ \A i, j \in 1..Len(users) : users[i].email = users[j].email => i = j
    /\ \A p, q \in Procs :
          (/\ regs[p].pc = "done" /\ regs[p].result.success
           /\ regs[q].pc = "done" /\ regs[q].result.success
           /\ regs[p].email = regs[q].email) => p = q

\* C16 happens: two registrations for one email both passed the lookup, one
\* created the user and the other was refused by the unique index
C16_Witness ==
    \E p, q \in Procs :
        /\ regs[p].pc = "done" /\ regs[p].result.success
        /\ regs[q].pc = "done" /\ regs[q].fault = "duplicate"
        /\ regs[q].email = regs[p].email /\ ~regs[q].dup

(***************************************************************************)
(* Session lifetime: the stored users sign in, time passes, and the        *)
(* clients open the discussion list, whose server action calls auth().     *)
(***************************************************************************)
\* the instants the clock shows: around multiples of updateAge and maxAge
Instants ==
    {t \in {a + b * updateAge + c * maxAge :
               a \in -1..1, b \in 0..1, c \in 0..2} : t >= 0}

InitSession ==
    /\ users = Accounts
    /\ discussions = [i \in 1..MaxItems |->
            DiscussionDoc("u1", trim(SomeText), trim(SomeText), i)]
    /\ comments = <<>>
    /\ clock = MaxItems + 1
    /\ sessions = [c \in Clients |-> NoSession]
    /\ calls = [p \in Procs |-> IdleCall]
    /\ nCalls = 0
    /\ track = [i \in Items |-> NoTrack]
    /\ login = [c \in Clients |-> NoLogin]
    /\ reply = NoReply
    /\ plain = PlainOf(Len(users))
    /\ now = 0
    /\ tokens = [c \in Clients |-> NoToken]
    /\ regs = [p \in Procs |-> IdleReg]
    /\ connection = NoConnection
    /\ card = NoCard

NextSession ==
    \/ \E c \in LoginClients, i \in 1..2 :
          handleSubmit(c, Registrations[i].email, Registrations[1].password,
                       TRUE, TRUE)
    \/ \E t \in Instants : Tick(t)
    \/ \E c \in LoginClients, up \in BOOLEAN : getDiscussions(c, up)

SpecSession == InitSession /\ [][NextSession]_vars

\* the longest a session lasts without being issued again, in seconds
ThirtyDays == 30 * 24 * 60 * 60
\* the age beyond which a request has the token issued again, in seconds
OneDay == 24 * 60 * 60

\* the step is a getDiscussions call by client c that the store answers
Requests(c) ==
    /\ reply' # reply
    /\ reply'.op = "getDiscussions"
    /\ reply'.client = c
    /\ reply'.fault = "none"

\* C13: a request is served as the signed-in user exactly when the client
\* holds a token and the time is before the token's expiry, which is thirty
\* days after the token was last issued; from then on every request with
\* the token is served as Anonymous.
C13_AcceptedUntilExpiry ==
    [][\A c \in Clients :
          Requests(c) =>
              /\ tokens[c] # NoToken => tokens[c].expires = tokens[c].issuedAt + ThirtyDays
              /\ reply'.viewer # Undefined <=>
                    (tokens[c] # NoToken /\ now < tokens[c].issuedAt + ThirtyDays)
              /\ reply'.viewer # Undefined => reply'.viewer = sessions[c].user.id]_vars

\* C13 happens: a client signed in at time 0 has been served as Anonymous
\* at the instant of expiry
C13_Witness ==
    \E c \in Clients :
        /\ tokens[c] = [issuedAt |-> 0, expires |-> ThirtyDays]
        /\ now = ThirtyDays
        /\ reply.op = "getDiscussions" /\ reply.client = c /\ reply.fault = "none"
        /\ reply.viewer = Undefined

\* C14: an accepted request that arrives more than a day after the token
\* was last issued has the token issued again, expiring thirty days after
\* the request; an accepted request within a day of the last issuance
\* leaves the expiry as it was.
C14_SlidingExpiry ==
    [][\A c \in Clients :
          (Requests(c) /\ reply'.viewer # Undefined) =>
              IF now - tokens[c].issuedAt > OneDay
              THEN tokens'[c] = [issuedAt |-> now, expires |-> now + ThirtyDays]
              ELSE tokens'[c].expires = tokens[c].expires]_vars

(***************************************************************************)
(* Content: a signed-in client and an anonymous one create discussions and *)
(* comments and read them back.                                            *)
(***************************************************************************)
\* a string of n characters without whitespace
Fill(n) == [i \in 1..n |-> "a"]

\* one character between two blanks, and blanks only
Padded == <<" ", "a", " ">>
Blank == <<" ", " ", " ">>

TypedTitles ==
    {Fill(TitleMin - 1), Fill(TitleMin), Fill(TitleMax), Fill(TitleMax + 1),
     Padded, Blank}
TypedDescriptions ==
    {Fill(DescriptionMin - 1), Fill(DescriptionMin), Fill(DescriptionMax),
     Fill(DescriptionMax + 1), Padded}
\* the pairs the clients submit: every title with a short description,
\* every description with a short title, and both at their limits
TypedPairs ==
    (TypedTitles \X {Fill(DescriptionMin)})
    \cup ({Fill(TitleMin)} \X TypedDescriptions)
    \cup {<<Fill(TitleMax), Fill(DescriptionMax)>>,
          <<Fill(TitleMax + 1), Fill(DescriptionMin - 1)>>,
          <<Fill(TitleMin - 1), Fill(DescriptionMax + 1)>>}
TypedComments ==
    {<<>>, <<" ">>, Fill(CommentMin), Padded, Fill(CommentMax + 1)}
ContentClients == {"c1", "c3"}

InitContent ==
    /\ users = Accounts
    /\ discussions = <<>>
    /\ comments = <<>>
    /\ clock = 1
    /\ sessions = [c \in Clients |-> IF c = "c1" THEN SessionOf(1) ELSE NoSession]
    /\ calls = [p \in Procs |-> IdleCall]
    /\ nCalls = 0
    /\ track = [i \in Items |-> NoTrack]
    /\ login = [c \in Clients |-> NoLogin]
    /\ reply = NoReply
    /\ plain = PlainOf(Len(users))
    /\ now = 0
    /\ tokens = [c \in Clients |->
            IF sessions[c] = NoSession THEN NoToken ELSE issueToken(now)]
    /\ regs = [p \in Procs |-> IdleReg]
    /\ connection = NoConnection
    /\ card = NoCard

NextContent ==
    \/ \E pair \in TypedPairs, c \in ContentClients, up \in BOOLEAN :
          /\ \/ Len(discussions) < MaxDocs
             \/ ~createDiscussionSchema(pair[1], pair[2]).success
          /\ addDiscussion(c, pair[1], pair[2], SessionUserId(auth(c)), up)
    \/ \E description \in TypedComments, c \in ContentClients, up \in BOOLEAN :
          /\ Len(comments) < MaxDocs
          /\ addComment(c, 1, description, SessionUserId(auth(c)), up)
    \/ \E c \in ContentClients, up \in BOOLEAN : getDiscussions(c, up)
    \/ \E c \in ContentClients, up \in BOOLEAN :
          getMyDiscussions(c, SessionUserId(auth(c)), up)
    \/ \E c \in ContentClients, up \in BOOLEAN : getCommentByDiscussionId(c, 1, up)
    \/ \E c \in ContentClients, id \in TargetIds, up \in BOOLEAN :
          getDiscussionById(c, id, up)

SpecContent == InitContent /\ [][NextContent]_vars

Listings == {"getDiscussions", "getMyDiscussions", "getCommentByDiscussionId"}

\* what the caller of a listing or a registration can see of its outcome
Visible(r) == [kind |-> r.kind, data |-> r.data]

\* C17: a listing during which the store is unavailable gives its caller
\* something other than what a successful listing of nothing gives, and a
\* registration that failed in the store does not send the register page
\* on to the login page.
C17_FailureDistinguishable ==
    /\ (reply.op \in Listings /\ reply.fault = "unavailable") =>
          Visible(reply) # Visible(ListingReturn(reply.op, reply.client,
                                                 reply.viewer, <<>>))
    /\ \A p \in Procs :
          (regs[p].pc = "done" /\ regs[p].fault \in {"unavailable", "duplicate"}) =>
              regs[p].page.route # "/login"

\* C18: every server operation ends by returning a value, never by
\* throwing or returning undefined, and a mutation that fails returns
\* success = false with an error message.
C18_AlwaysReturnsResult ==
    /\ reply.kind = "value"
    /\ (reply.op \in {"addDiscussion", "addComment"} /\ ~reply.success) =>
          reply.error # ""
    /\ \A p \in Procs :
          /\ regs[p].pc = "done" /\ regs[p].fault # "confirm" =>
                /\ regs[p].result.kind = "value"
                /\ ~regs[p].result.success => regs[p].result.error # ""
          /\ (calls[p].pc = "done" /\ ~calls[p].result.success) =>
                calls[p].result.error # ""

\* C19: every stored discussion has a trimmed title of 3 to 200 characters
\* and a trimmed description of 3 to 1000 characters.
C19_StoredWithinBounds ==
    \A i \in 1..Len(discussions) :
        LET doc == discussions[i]
        IN  /\ doc.title = trim(doc.title)
            /\ doc.description = trim(doc.description)
            /\ Len(doc.title) \in 3..200
            /\ Len(doc.description) \in 3..1000

\* the two messages of a length check
TooShort == "Must not be less than 3 characters"
TooLong == "Must not be more than 200 characters"
TooLongDescription == "Must not be more than 1000 characters"

\* C20: of the strings as given: a title of 3 to 200 characters with a
\* description of 3 to 1000 characters passes the validation; a title of
\* fewer than 3 characters is rejected with the minimum-length message, one
\* of more than 200 with the maximum-length message, and with a title in
\* range so is a description of fewer than 3 or more than 1000.
C20_ValidationBoundaries ==
    reply.op = "addDiscussion" =>
        LET t == Len(reply.input[1])
            d == Len(reply.input[2])
        IN  /\ (t \in 3..200 /\ d \in 3..1000) =>
                  reply.error \notin {TooShort, TooLong, TooLongDescription}
            /\ t < 3 => (~reply.success /\ reply.error = TooShort)
            /\ t > 200 => (~reply.success /\ reply.error = TooLong)
            /\ (t \in 3..200 /\ d < 3) =>
                  (~reply.success /\ reply.error = TooShort)
            /\ (t \in 3..200 /\ d > 1000) =>
                  (~reply.success /\ reply.error = TooLongDescription)

\* C20 happens: a discussion with a title of 200 and a description of 1000
\* characters is stored, and a title of 201 characters has been refused
C20_Witness ==
    /\ \E i \in 1..Len(discussions) :
          Len(discussions[i].title) = 200 /\ Len(discussions[i].description) = 1000
    /\ reply.op = "addDiscussion" /\ Len(reply.input[1]) = 201
    /\ reply.error = TooLong

(***************************************************************************)
(* Validation: addDiscussion and createDiscussAccount are called with      *)
(* inputs that break several rules at once.                                *)
(***************************************************************************)
BadEmail == <<"a", "x", ".", "c", "o", "m">>
ValidationNames ==
    {Registrations[1].fullName, Fill(FullNameMin - 1), Fill(FullNameMax + 1)}
ValidationEmails == {Registrations[1].email, BadEmail}
\* a valid password, and passwords that are too short, without an
\* uppercase letter, without a lowercase letter, without a digit and
\* without a special character
ValidationPasswords ==
    {Registrations[1].password,
     <<"a", "b", "c">>,
     <<"a", "b", "c", "d", "e", "f", "g", "h">>,
     <<"A", "B", "C", "D", "1", "2", "3", "4">>,
     <<"A", "b", "c", "d", "e", "f", "g", "!">>,
     <<"A", "b", "c", "d", "e", "f", "g", "1">>}

NextValidation ==
    \/ \E pair \in TypedPairs, up \in BOOLEAN :
          /\ \/ Len(discussions) < MaxDocs
             \/ ~createDiscussionSchema(pair[1], pair[2]).success
          /\ addDiscussion("c1", pair[1], pair[2], "u1", up)
    \/ \E email \in ValidationEmails, password \in ValidationPasswords,
          fullName \in ValidationNames, up \in BOOLEAN :
          createDiscussAccountFind("p1", email, password, password, fullName, up)
    \/ \E up \in BOOLEAN : createDiscussAccountCreate("p1", up)

SpecValidation == InitAccounts /\ [][NextValidation]_vars

\* the message of the first rule a discussion breaks, rule by rule: the
\* title's minimum and maximum, then the description's; "" if none
FirstOfDiscussion(title, description) ==
    IF Len(title) < 3 THEN TooShort
    ELSE IF Len(title) > 200 THEN TooLong
    ELSE IF Len(description) < 3 THEN TooShort
    ELSE IF Len(description) > 1000 THEN TooLongDescription
    ELSE ""

\* the same of a registration: the full name's minimum and maximum, the
\* email's pattern, the password's minimum and its patterns
FirstOfRegistration(email, password, fullName) ==
    IF Len(fullName) < 3 THEN "Full name should be more than 3 characters"
    ELSE IF Len(fullName) > 30
    THEN "Full name should not be more than 30 characters"
    ELSE IF ~IsEmail(email) THEN "Invalid email address"
    ELSE IF Len(password) < 8
    THEN "Password should be 8 or more characters long"
    ELSE IF \A i \in 1..Len(password) : password[i] \notin UpperChars
    THEN "Password must contain atleast one uppercase letter"
    ELSE IF \A i \in 1..Len(password) : password[i] \notin LowerChars
    THEN "Password must contain atleast one lowercase letter"
    ELSE IF \A i \in 1..Len(password) : password[i] \notin DigitChars
    THEN "Password must contain atleast one number"
    ELSE IF \A i \in 1..Len(password) :
                password[i] \in UpperChars \cup LowerChars \cup DigitChars
    THEN "Password must contain at least one special character"
    ELSE ""

\* C21: an addDiscussion or createDiscussAccount call whose input breaks
\* one or more rules fails with the message of the first broken rule, the
\* rules of a field taken in the order minimum length, maximum length,
\* pattern and the fields in the order the schema declares them; the
\* message depends on the input alone.
C21_FirstViolatedRule ==
    /\ (reply.op = "addDiscussion"
        /\ FirstOfDiscussion(reply.input[1], reply.input[2]) # "") =>
          /\ ~reply.success
          /\ reply.error = FirstOfDiscussion(reply.input[1], reply.input[2])
    /\ \A p \in Procs :
          LET typed == regs[p].typed
          IN  (regs[p].pc # "idle" /\ regs[p].fault # "confirm"
               /\ FirstOfRegistration(typed[1], typed[2], typed[3]) # "") =>
                /\ regs[p].pc = "done"
                /\ regs[p].result =
                      RegValue(FALSE,
                               FirstOfRegistration(typed[1], typed[2], typed[3]))

\* C21 happens: a registration with a short name, a malformed email and a
\* short password has failed on the name, and a discussion with a title
\* too long and a description too short on the title
C21_Witness ==
    /\ regs["p1"].pc = "done"
    /\ regs["p1"].typed = <<BadEmail, <<"a", "b", "c">>, Fill(FullNameMin - 1)>>
    /\ regs["p1"].result.error = "Full name should be more than 3 characters"
    /\ reply.op = "addDiscussion"
    /\ reply.input = <<Fill(TitleMax + 1), Fill(DescriptionMin - 1)>>
    /\ reply.error = TooLong

\* C22: an addComment call whose description is empty or longer than 2000
\* characters stores no comment and returns success = false with the
\* message of the rule it breaks; every stored comment has a description
\* of 1 to 2000 characters.
C22_InvalidCommentRefused ==
    /\ (reply.op = "addComment" /\ Len(reply.input[1]) < 1) =>
          (~reply.success /\ reply.error = "Comment cannot be empty")
    /\ (reply.op = "addComment" /\ Len(reply.input[1]) > 2000) =>
          (~reply.success
           /\ reply.error = "Comment must not exceed 2000 characters")
    /\ \A i \in 1..Len(comments) : Len(comments[i].description) \in 1..2000

(***************************************************************************)
(* The feed: two users are registered; a signed-in client and an anonymous *)
(* one call the content actions with user ids of their choice (their own,  *)
(* another user's, one that belongs to no user, none) and read the         *)
(* listings.                                                               *)
(***************************************************************************)
FeedClients == {"c1", "c3"}
\* the userId argument: u1 and u2 are users, u3 is the id of no user
FeedUserIds == {"u1", "u2", "u3", Undefined}

InitFeed ==
    /\ users = SubSeq(Accounts, 1, 2)
    /\ discussions = <<>>
    /\ comments = <<>>
    /\ clock = 1
    /\ sessions = [c \in Clients |-> IF c = "c1" THEN SessionOf(1) ELSE NoSession]
    /\ calls = [p \in Procs |-> IdleCall]
    /\ nCalls = 0
    /\ track = [i \in Items |-> NoTrack]
    /\ login = [c \in Clients |-> NoLogin]
    /\ reply = NoReply
    /\ plain = PlainOf(Len(users))
    /\ now = 0
    /\ tokens = [c \in Clients |->
            IF sessions[c] = NoSession THEN NoToken ELSE issueToken(now)]
    /\ regs = [p \in Procs |-> IdleReg]
    /\ connection = NoConnection
    /\ card = NoCard

NextFeed ==
    \/ \E c \in FeedClients, userId \in FeedUserIds, up \in BOOLEAN :
          /\ Len(discussions) < MaxFeed
          /\ addDiscussion(c, SomeText, SomeText, userId, up)
    \/ \E c \in FeedClients, userId \in FeedUserIds, up \in BOOLEAN :
          /\ Len(comments) < MaxFeed
          /\ addComment(c, 1, SomeText, userId, up)
    \/ \E c \in FeedClients, up \in BOOLEAN : getDiscussions(c, up)
    \/ \E c \in FeedClients, userId \in FeedUserIds, up \in BOOLEAN :
          getMyDiscussions(c, userId, up)
    \/ \E c \in FeedClients, up \in BOOLEAN : getCommentByDiscussionId(c, 1, up)
    \/ \E c \in FeedClients, id \in 1..MaxFeed, up \in BOOLEAN :
          getDiscussionById(c, id, up)

SpecFeed == InitFeed /\ [][NextFeed]_vars

\* the documents a listing is asked for: all discussions, the discussions
\* of the user given, the comments of discussion 1
Asked(r) ==
    IF r.op = "getDiscussions" THEN 1..Len(discussions)
    ELSE IF r.op = "getMyDiscussions"
    THEN {i \in 1..Len(discussions) : discussions[i].userId = r.viewer}
    ELSE {i \in 1..Len(comments) : comments[i].discussId = 1}

AskedOf(r) == IF r.op = "getCommentByDiscussionId" THEN comments ELSE discussions

\* C23: while the store answers, a listing returns every document it is
\* asked for also when the user that owns a document does not exist, and
\* shows "Unknown User" as the author of such a document.
C23_MissingOwnerListed ==
    (reply.op \in Listings /\ reply.fault # "unavailable") =>
        /\ {reply.data[k].id : k \in 1..Len(reply.data)} = Asked(reply)
        /\ \A k \in 1..Len(reply.data) :
              ~FullNameOf(AskedOf(reply)[reply.data[k].id].userId).defined =>
                  reply.data[k].createdBy = [defined |-> TRUE, name |-> UnknownUser]

\* C24: while the store answers, getDiscussions returns all stored
\* discussions and getMyDiscussions(userId) exactly the discussions whose
\* owner is userId, each from the newest to the oldest.
C24_ListingsCompleteAndNewestFirst ==
    (reply.op \in {"getDiscussions", "getMyDiscussions"}
     /\ reply.fault # "unavailable") =>
        /\ {reply.data[k].id : k \in 1..Len(reply.data)} = Asked(reply)
        /\ Len(reply.data) = Cardinality(Asked(reply))
        /\ \A k, l \in 1..Len(reply.data) :
              k < l => reply.data[k].createdAt >= reply.data[l].createdAt

\* C26: an addDiscussion or addComment call that stores a document was
\* made by a caller with a valid session, and the stored owner is that
\* session's user id; a call without a session, or with a userId argument
\* that is not the session's user, stores nothing.
C26_ContentOnlyByAuthenticated ==
    (reply.op \in {"addDiscussion", "addComment"} /\ reply.success) =>
        /\ auth(reply.client) # NoSession
        /\ reply.data[1].userId = SessionUserId(auth(reply.client))

(***************************************************************************)
(* All operations together: a signed-in client likes and unlikes stored    *)
(* content, creates content and reads the views, a third user registers    *)
(* and the anonymous client signs in.                                      *)
(***************************************************************************)
InitFrame ==
    /\ users = SubSeq(Accounts, 1, 2)
    /\ discussions = [i \in 1..MaxItems |->
            DiscussionDoc("u1", trim(SomeText), trim(SomeText), i)]
    /\ comments = [i \in 1..MaxItems |->
            CommentDoc(1, "u2", trim(SomeText), MaxItems + i)]
    /\ clock = MaxItems + MaxItems + 1
    /\ sessions = [c \in Clients |-> IF c = "c1" THEN SessionOf(1) ELSE NoSession]
    /\ calls = [p \in Procs |-> IdleCall]
    /\ nCalls = 0
    /\ track = [i \in Items |-> NoTrack]
    /\ login = [c \in Clients |-> NoLogin]
    /\ reply = NoReply
    /\ plain = PlainOf(Len(users))
    /\ now = 0
    /\ tokens = [c \in Clients |->
            IF sessions[c] = NoSession THEN NoToken ELSE issueToken(now)]
    /\ regs = [p \in Procs |-> IdleReg]
    /\ connection = NoConnection
    /\ card = NoCard

NextFrame ==
    \/ \E up \in BOOLEAN : toggleLikeRead("p1", "c1", 1, up)
    \/ \E up \in BOOLEAN : toggleCommentLikeRead("p1", "c1", 1, up)
    \/ \E up \in BOOLEAN : toggleLikeUpdate("p1", up, FALSE)
    \/ \E up \in BOOLEAN : toggleCommentLikeUpdate("p1", up, FALSE)
    \/ ToggleReturn("p1")
    \/ \E up \in BOOLEAN :
          /\ Len(discussions) < MaxItems + 1
          /\ addDiscussion("c1", SomeText, SomeText, "u1", up)
    \/ \E up \in BOOLEAN :
          /\ Len(comments) < MaxItems + 1
          /\ addComment("c1", 1, SomeText, "u1", up)
    \/ \E up \in BOOLEAN : getDiscussions("c1", up)
    \/ \E up \in BOOLEAN : getMyDiscussions("c1", "u1", up)
    \/ \E up \in BOOLEAN : getCommentByDiscussionId("c1", 1, up)
    \/ \E up \in BOOLEAN : getDiscussionById("c1", 1, up)
    \/ \E up \in BOOLEAN :
          createDiscussAccountFind("p2", Registrations[3].email,
                                   Registrations[3].password,
                                   Registrations[3].password,
                                   Registrations[3].fullName, up)
    \/ \E up \in BOOLEAN : createDiscussAccountCreate("p2", up)
    \/ handleSubmit("c3", Registrations[2].email, Registrations[2].password,
                    TRUE, TRUE)

SpecFrame == InitFrame /\ [][NextFrame]_vars

(***************************************************************************)
(* The views: a discussion and a comment with likes are stored; a          *)
(* signed-in client and an anonymous one read them, the anonymous client   *)
(* signs in, and time passes beyond the expiry of the first session.       *)
(***************************************************************************)
\* the likedBy arrays the toggles leave behind: of one or two users, with
\* a user twice, and with the null of a toggle without a session
LikedBys ==
    {<<>>, <<"u1">>, <<"u2">>, <<"u2", "u1">>, <<"u1", "u1">>, <<Null>>,
     <<Null, "u2">>}

ViewClients == {"c1", "c3"}

InitViews ==
    /\ users = Accounts
    /\ \E likedBy \in LikedBys :
          discussions = <<[DiscussionDoc("u1", trim(SomeText), trim(SomeText), 1)
                              EXCEPT !.likedBy = likedBy, !.upVote = Len(likedBy)]>>
    /\ \E likedBy \in LikedBys :
          comments = <<[CommentDoc(1, "u2", trim(SomeText), 2)
                           EXCEPT !.likedBy = likedBy, !.upVote = Len(likedBy)]>>
    /\ clock = 3
    /\ sessions = [c \in Clients |-> IF c = "c1" THEN SessionOf(1) ELSE NoSession]
    /\ calls = [p \in Procs |-> IdleCall]
    /\ nCalls = 0
    /\ track = [i \in Items |-> NoTrack]
    /\ login = [c \in Clients |-> NoLogin]
    /\ reply = NoReply
    /\ plain = PlainOf(Len(users))
    /\ now = 0
    /\ tokens = [c \in Clients |->
            IF sessions[c] = NoSession THEN NoToken ELSE issueToken(now)]
    /\ regs = [p \in Procs |-> IdleReg]
    /\ connection = NoConnection
    /\ card = NoCard

NextViews ==
    \/ \E c \in ViewClients, up \in BOOLEAN : getDiscussions(c, up)
    \/ \E c \in ViewClients, id \in TargetIds, up \in BOOLEAN :
          getDiscussionById(c, id, up)
    \/ \E c \in ViewClients, up \in BOOLEAN : getCommentByDiscussionId(c, 1, up)
    \/ handleSubmit("c3", Registrations[2].email, Registrations[2].password,
                    TRUE, TRUE)
    \/ \E t \in {OneDay, ThirtyDays + 1} : Tick(t)

SpecViews == InitViews /\ [][NextViews]_vars

\* the views that show isLikedByCurrentUser to the session's user
SessionViews == {"getDiscussions", "getDiscussionById", "getCommentByDiscussionId"}

\* C25: in every view getDiscussions, getDiscussionById and
\* getCommentByDiscussionId return, isLikedByCurrentUser is true exactly
\* when the caller has a session and the session's user id is an element
\* of the document's likedBy as the call read it; without a session it is
\* false.
C25_LikedFlagIsSessionMembership ==
    [][(reply' # reply /\ reply'.op \in SessionViews) =>
          LET current == auth(reply'.client)
              coll    == IF reply'.op = "getCommentByDiscussionId"
                         THEN comments ELSE discussions
          IN  \A k \in 1..Len(reply'.data) :
                 LET likedBy == coll[reply'.data[k].id].likedBy
                 IN  reply'.data[k].isLikedByCurrentUser
                        = (/\ current # NoSession
                           /\ \E j \in 1..Len(likedBy) :
                                 likedBy[j] = current.user.id)]_vars

\* C25 happens: the client that signed in as the second user is shown as
\* liked a discussion that this user and another like
C25_Witness ==
    /\ reply.op = "getDiscussions"
    /\ reply.client = "c3"
    /\ auth("c3") = SessionOf(2)
    /\ discussions[1].likedBy = <<"u2", "u1">>
    /\ Len(reply.data) = 1
    /\ reply.data[1].isLikedByCurrentUser

\* a document but for its vote counter and voters
Rest(doc) == [doc EXCEPT !.upVote = 0, !.likedBy = <<>>]

\* handler p takes the update step of a toggle of item id of op
Updates(p, op, id) ==
    /\ calls[p].pc = "read" /\ calls[p].op = op /\ calls[p].id = id
    /\ calls'[p].pc = "done"

InitConnect ==
    /\ users = <<>>
    /\ discussions = <<>>
    /\ comments = <<>>
    /\ clock = 0
    /\ sessions = [c \in Clients |-> NoSession]
    /\ calls = [p \in Procs |-> IdleCall]
    /\ nCalls = 0
    /\ track = [i \in Items |-> NoTrack]
    /\ login = [c \in Clients |-> NoLogin]
    /\ reply = NoReply
    /\ plain = <<>>
    /\ now = 0
    /\ tokens = [c \in Clients |-> NoToken]
    /\ regs = [p \in Procs |-> IdleReg]
    /\ \E uri \in BOOLEAN : connection = [NoConnection EXCEPT !.uri = uri]
    /\ card = NoCard

NextConnect ==
    \/ \E p \in Procs : connectDB(p)
    \/ \E p \in Procs, up \in BOOLEAN : connectDBReturn(p, up)

SpecConnect == InitConnect /\ [][NextConnect]_vars

\* C28: connectDB establishes the connection to the store at most once:
\* two first calls made at the same time start one connection, and later
\* calls reuse the handle.
C28_ConnectsAtMostOnce == connection.connects <= 1

(***************************************************************************)
(* A like button: the component is mounted with the flag and count of a    *)
(* view, the user clicks, and the server call succeeds, fails or rejects.  *)
(***************************************************************************)
InitCards ==
    /\ users = <<>>
    /\ discussions = <<>>
    /\ comments = <<>>
    /\ clock = 0
    /\ sessions = [c \in Clients |-> NoSession]
    /\ calls = [p \in Procs |-> IdleCall]
    /\ nCalls = 0
    /\ track = [i \in Items |-> NoTrack]
    /\ login = [c \in Clients |-> NoLogin]
    /\ reply = NoReply
    /\ plain = <<>>
    /\ now = 0
    /\ tokens = [c \in Clients |-> NoToken]
    /\ regs = [p \in Procs |-> IdleReg]
    /\ connection = NoConnection
    /\ \E component \in Components, isLikedByCurrentUser \in BOOLEAN,
          upVote \in 0..MaxShown :
          card = Card(component, isLikedByCurrentUser, upVote)

NextCards ==
    \/ \E component \in Components : handleLike(component)
    \/ \E outcome \in Outcomes : DiscussionCardItemSettles(outcome)
    \/ \E outcome \in Outcomes : DiscussionDetailCardSettles(outcome)
    \/ \E outcome \in Outcomes : CommentCardSettles(outcome)

SpecCards == InitCards /\ [][NextCards]_vars

\* C29: once the server call of a like button has finished, the button
\* shows the flag and the count the server returned if the call succeeded
\* and those it showed before the click if the call returned a failure or
\* rejected, and it is no longer loading.
C29_ButtonSettlesOnServerOrPrevious ==
    card.pc = "settled" =>
        /\ ~card.isLoading
        /\ IF card.outcome.kind = "success"
           THEN /\ card.isLiked = card.outcome.likedBy
                /\ card.upvoteCount = card.outcome.upVote
           ELSE /\ card.isLiked = card.previousIsLiked
                /\ card.upvoteCount = card.previousUpVoteCount

\* C30: when createDiscussAccount returns a failure (a validation message
\* or "User already exists"), the register page's error state holds that
\* message once handleSubmit has completed, and the user is not sent to
\* /login; the page navigates there only after a success.
C30_RegisterPageShowsFailure ==
    \A p \in Procs :
        regs[p].pc = "done" =>
            /\ (regs[p].result.kind = "value" /\ ~regs[p].result.success) =>
                  /\ regs[p].page.error = regs[p].result.error
                  /\ regs[p].page.route # "/login"
            /\ regs[p].page.route = "/login" =>
                  (regs[p].result.kind = "value" /\ regs[p].result.success)

====
